---- MODULE Spec2Model ----
(***************************************************************************)
(* Model of the API path of the Plex missing-subtitles downloader:         *)
(* OpenSubtitlesAPI (rate limiter, login, search, download) and            *)
(* PlexSubtitleDownloader (gap detection, candidate selection, per-item    *)
(* download loop, library driver) of plex_opensub_downloader.py.           *)
(*                                                                         *)
(* The program is sequential; pc is its position.  One action is the code  *)
(* between two outbound requests, the provider's answer to the request     *)
(* being the action's input.                                               *)
(*                                                                         *)
(* Encodings: Python None is the integer None (-1) wherever the other      *)
(* values are integers; an Optional list is a record [is_none, list];      *)
(* bytes are their length class (0 = b"", 1 = non-empty); a language tag   *)
(* is the sequence of its characters; time is counted in ticks,            *)
(* TicksPerSecond ticks to the second.  Clock readings enter the program   *)
(* only as time.time() - last_request_time, so the state holds that        *)
(* difference (api.elapsed); the library's items are immutable and are     *)
(* drawn when the loop reaches them.                                       *)
(***************************************************************************)
EXTENDS Integers, Sequences, FiniteSets, TLC

\* ------------------------------------------------------------------ bounds
MaxItems == 2
MaxRelogin == 2
MaxRemaining == 1
MaxRetryAfter == 1
MaxToken == 1
MaxBudget == 1
TicksPerSecond == 2
MaxOvershoot == 1
MaxCalls == 5
MaxStreams == 2
MaxTagLen == 3
MaxResults == 3
MaxGuids == 3
MaxLibraries == 3
MaxLibraryDownloads == 2
MaxRunBudget == 3
MaxSteps == 3
MaxShows == 3
MaxEpisodes == 2

\* --------------------------------------------------------------- constants
None == -1
RequestException == 0
min_request_interval == 1 * TicksPerSecond
MaxElapsed == 2 * min_request_interval

\* ----------------------------------------------------------- language tags
en == <<"e", "n">>
es == <<"e", "s">>
fr == <<"f", "r">>
de == <<"d", "e">>
it == <<"i", "t">>
pt == <<"p", "t">>

LowerChar(c) ==
  CASE c = "E" -> "e"
    [] c = "N" -> "n"
    [] c = "G" -> "g"
    [] c = "S" -> "s"
    [] c = "P" -> "p"
    [] c = "A" -> "a"
    [] OTHER -> c

lower(tag) == [k \in 1..Len(tag) |-> LowerChar(tag[k])]

\* (variant: the table also maps a three-letter synonym to a three-letter
\* code)
conversions_chained(code) ==
  CASE code = <<"e", "n", "g">> -> en
    [] code = <<"g", "e", "n">> -> <<"e", "n", "g">>
    [] OTHER -> SubSeq(code, 1, 2)

conversions(code) ==
  CASE code = <<"e", "n", "g">> -> en
    [] code = <<"s", "p", "a">> -> es
    [] code = <<"f", "r", "a">> -> fr
    [] code = <<"d", "e", "u">> -> de
    [] code = <<"i", "t", "a">> -> it
    [] code = <<"p", "o", "r">> -> pt
    [] OTHER -> SubSeq(code, 1, 2)

normalize(languageCode) ==
  LET lang_code == lower(languageCode)
  IN  IF Len(lang_code) = 3 THEN conversions(lang_code) ELSE lang_code

\* (variant: the codes are lower-cased but three-letter codes are kept)
get_existing_subtitle_languages_raw(video) ==
  { lower(video.streams[k]) :
      k \in { j \in 1..Len(video.streams) : video.streams[j] # <<>> } }

\* a stream without a language tag (None or "") is the empty sequence
get_existing_subtitle_languages(video) ==
  { normalize(video.streams[k]) :
      k \in { j \in 1..Len(video.streams) : video.streams[j] # <<>> } }

\* ------------------------------------------------------------ rate limiter
\* (variant: the limiter sleeps the elapsed time, not what is left of the
\* interval)
wait_for_rate_limit_sleeps_elapsed(elapsed, overshoot) ==
  LET sleep_time == IF elapsed < min_request_interval THEN elapsed ELSE 0
  IN  [sleep_time |-> sleep_time,
       passed |-> IF elapsed < min_request_interval
                  THEN sleep_time + overshoot ELSE 0]

\* _wait_for_rate_limit called when time.time() - last_request_time is
\* `elapsed`: the sleep it asks for, and the time that passes in the call
\* (a sleep lasts the time asked for plus overshoot)
wait_for_rate_limit(elapsed, overshoot) ==
  LET sleep_time == IF elapsed < min_request_interval
                    THEN min_request_interval - elapsed ELSE 0
  IN  [sleep_time |-> sleep_time,
       passed |-> IF elapsed < min_request_interval
                  THEN sleep_time + overshoot ELSE 0]

\* ---------------------------------------------------------------- state
VARIABLES
  len_items,        \* len(items) of process_library
  item,             \* the item of the current loop iteration
  languages,        \* PlexSubtitleDownloader.languages (target set)
  max_downloads,    \* process_library's budget argument (None = unlimited)
  credentials,      \* TRUE when username and password are both set
  api,              \* OpenSubtitlesAPI: jwt_token, remaining_downloads,
                    \* elapsed (time.time() - last_request_time), and
                    \* since_acquire: requests sent since the limiter
                    \* returned (2 stands for two or more)
  download_report,  \* PlexSubtitleDownloader.download_report
  disk,             \* languages of the sidecar files beside the current
                    \* item's media file
  pc,               \* position of the (single) thread of control
  i,                \* process_library: index of the current item
  total_downloaded, \* process_library local
  stats,            \* process_library local
  missing,          \* download_subtitles_for_item local
  todo,             \* languages of `missing` the for loop has not visited
  results,          \* value returned by search_subtitles
  downloaded_count, \* download_subtitles_for_item local
  lang,             \* loop variable of the for loop
  best,             \* lang_results[0] of the current language
  content,          \* value returned by download_subtitle
  downloaded,       \* value returned by download_subtitles_for_item
  h                 \* history of the current call (observations only)

vars == <<len_items, item, languages, max_downloads, credentials, api,
          download_report,
          disk, pc, i, total_downloaded, stats, missing, todo, results,
          downloaded_count, lang, best, content, downloaded, h>>

cfgVars == <<len_items, languages, max_downloads, credentials>>
itemVars == <<missing, todo, results, downloaded_count, lang, best, content,
              downloaded>>
runVars == <<i, total_downloaded, stats>>

\* ---------------------------------------------------------- input domains
Tokens == 1..MaxToken
Overshoots == 0..MaxOvershoot

Candidate(l, r, d, f) ==
  [language |-> l, ratings |-> r, download_count |-> d, files |-> f]

\* files: <<>> is an empty `files` list, <<None>> a file entry without
\* file_id (also the default [{}] of a missing `files` key)
ResultLists ==
  { <<>>,
    << Candidate(en, 7, 500, <<1>>), Candidate(en, 9, 200, <<2>>) >>,
    << Candidate(es, 9, 200, <<3>>), Candidate(en, 7, 500, <<1>>) >>,
    << Candidate(en, 7, 500, <<>>), Candidate(es, 9, 200, <<3>>) >>,
    << Candidate(en, 7, 500, <<None>>), Candidate(en, 5, 900, <<4>>) >> }

NoCandidate == Candidate(<<>>, 0, 0, <<>>)

Item(s, p, f) == [streams |-> s, path |-> p, sidecars |-> f]

\* path: "ok" the media file exists, "nofile" the path is known but the
\* file is absent, "nopath" get_media_path returns None
ItemChoices ==
  { Item(<<>>, "ok", {}),
    Item(<< <<"E", "N", "G">> >>, "ok", {}),
    Item(<< <<>> >>, "ok", {en}),
    Item(<<>>, "nofile", {}),
    Item(<< <<"s", "p", "a">> >>, "nopath", {}) }

NoItem == Item(<<>>, "nopath", {})

TargetSets == { {en}, {en, es} }

Budgets == {None} \cup (0..MaxBudget)

RetryAfters == {None} \cup (1..MaxRetryAfter)

LoginResponses ==
  [status : {200}, token : Tokens \cup {None}]
    \cup [status : {401, 500, RequestException}, token : {None}]

SearchResponses ==
  [status : {200}, data : ResultLists, retry_after : {None}]
    \cup [status : {401, 406, 500, RequestException}, data : {<<>>},
          retry_after : {None}]
    \cup [status : {429}, data : {<<>>}, retry_after : RetryAfters]

PostResponses ==
  [status : {200}, link : BOOLEAN, remaining : {None} \cup (0..MaxRemaining),
   retry_after : {None}]
    \cup [status : {401, 406, 500, RequestException}, link : {FALSE},
          remaining : {None}, retry_after : {None}]
    \cup [status : {429}, link : {FALSE}, remaining : {None},
          retry_after : RetryAfters]

GetResponses ==
  [status : {200}, content : {0, 1}]
    \cup [status : {404, RequestException}, content : {None}]

WriteOutcomes == {"ok", "open_error", "write_error"}

\* --------------------------------------------------------------- history
\* observations of the current download_subtitle call
\* (zero_at_entry: the tracked quota was known and zero or less when the
\* call began; sent: the call has sent a request; relogin_token: the token
\* the last login after a 401 returned; gets: GETs of a download link, 2
\* standing for two or more; get_status: the answer to the last one)
NoDownloadCall ==
  [post_log |-> <<>>, sent |-> FALSE, zero_at_entry |-> FALSE,
   token_at_entry |-> None, relogins |-> 0, relogin_token |-> None,
   gets |-> 0, get_status |-> None]

NewDownloadCall(a) ==
  [NoDownloadCall EXCEPT
     !.zero_at_entry = (a.remaining_downloads # None
                          /\ a.remaining_downloads <= 0),
     !.token_at_entry = a.jwt_token]

\* observations of the current item: the search's requests, the languages
\* the loop visited, the outcome of each download_subtitle call
\* (searches: calls of search_subtitles, 2 standing for two or more;
\* search_languages: the `languages` parameter of the search on the wire)
NewItem ==
  [search_log |-> <<>>, search_status |-> None, visited |-> {},
   attempts |-> <<>>, dl_calls |-> 0, errors_at_start |-> 0,
   dl |-> NoDownloadCall, searches |-> 0, search_languages |-> <<>>]

NewRun == [item |-> NewItem, entered |-> 0, raised |-> 0]

\* one request as observed on the wire: when it was sent and its answer
Exchange(a, r) ==
  [sent_at |-> a.elapsed, status |-> r.status, retry_after |-> r.retry_after]

\* an initiation POST as observed on the wire, with the `remaining` count
\* of its answer
PostExchange(a, r) ==
  [sent_at |-> a.elapsed, status |-> r.status, retry_after |-> r.retry_after,
   remaining |-> r.remaining]

\* ------------------------------------------------------- OpenSubtitlesAPI
\* _wait_for_rate_limit ends with last_request_time = time.time()
Acquire(a) == [a EXCEPT !.elapsed = 0, !.since_acquire = 0]

\* an outbound request leaves the client
Send(a) == [a EXCEPT !.since_acquire = IF @ < 2 THEN @ + 1 ELSE 2]

\* (variant: any 429 is retried, with or without Retry-After)
handle_rate_limit_error_blind(a, response) ==
  IF response.status = 429
  THEN [api |-> IF response.retry_after # None
                THEN [a EXCEPT !.elapsed = @ + response.retry_after * TicksPerSecond]
                ELSE a,
        retry |-> TRUE]
  ELSE [api |-> a, retry |-> FALSE]

handle_rate_limit_error(a, response) ==
  IF response.status = 429
  THEN IF response.retry_after # None
       THEN [api |-> [a EXCEPT !.elapsed = @ + response.retry_after * TicksPerSecond],
             retry |-> TRUE]
       ELSE [api |-> a, retry |-> FALSE]
  ELSE [api |-> a, retry |-> FALSE]

\* (variant: the token of the login answer is not stored)
login_discards_token(a, response) ==
  IF ~credentials
  THEN [api |-> a, ok |-> FALSE, sent |-> 0]
  ELSE [api |-> Send(Acquire(a)), ok |-> response.status = 200, sent |-> 1]

login(a, response) ==
  IF ~credentials
  THEN [api |-> a, ok |-> FALSE, sent |-> 0]
  ELSE LET a1 == Send(Acquire(a))
       IN  IF response.status = 200
           THEN [api |-> [a1 EXCEPT !.jwt_token = response.token],
                 ok |-> TRUE, sent |-> 1]
           ELSE [api |-> a1, ok |-> FALSE, sent |-> 1]

\* (variant: 406 is treated like any other error status)
search_result_406_fails(response) ==
  IF response.status = 200
  THEN [is_none |-> FALSE, list |-> response.data]
  ELSE [is_none |-> TRUE, list |-> <<>>]

\* the value search_subtitles returns for the response it ends with
search_result(response) ==
  IF response.status = 200
  THEN [is_none |-> FALSE, list |-> response.data]
  ELSE IF response.status = 406
  THEN [is_none |-> FALSE, list |-> <<>>]
  ELSE [is_none |-> TRUE, list |-> <<>>]

quota_exhausted(a) ==
  a.remaining_downloads # None /\ a.remaining_downloads <= 0

\* ------------------------------------------------- PlexSubtitleDownloader
\* (variant: every target language is reported missing)
needs_subtitles_any(video) == languages

needs_subtitles(video) == languages \ get_existing_subtitle_languages(video)

\* (variant: the files on disk are not looked at)
subtitle_exists_ignored(language) == FALSE

subtitle_exists(language) == language \in disk

\* (variant: the sort key is the rating alone)
key_greater_rating_only(x, y) == x.ratings > y.ratings

key_greater(x, y) ==
  \/ x.ratings > y.ratings
  \/ x.ratings = y.ratings /\ x.download_count > y.download_count

\* (variant: an unstable sort, x goes before the elements of equal key)
insert_sorted_unstable(x, t) ==
  LET smaller == { k \in 1..Len(t) : ~key_greater(t[k], x) }
      pos == IF smaller = {} THEN Len(t) + 1
             ELSE CHOOSE k \in smaller : \A j \in smaller : k <= j
  IN  SubSeq(t, 1, pos - 1) \o <<x>> \o SubSeq(t, pos, Len(t))

\* x, later in the list than every element of the sorted t, goes before
\* the first element whose key is strictly smaller
insert_sorted(x, t) ==
  LET smaller == { k \in 1..Len(t) : key_greater(x, t[k]) }
      pos == IF smaller = {} THEN Len(t) + 1
             ELSE CHOOSE k \in smaller : \A j \in smaller : k <= j
  IN  SubSeq(t, 1, pos - 1) \o <<x>> \o SubSeq(t, pos, Len(t))

RECURSIVE sort_reverse(_)
sort_reverse(s) ==
  IF s = <<>> THEN <<>>
  ELSE insert_sorted(s[Len(s)], sort_reverse(SubSeq(s, 1, Len(s) - 1)))

\* (variant: the results are not filtered by language)
lang_results_unfiltered(list, language) == sort_reverse(list)

lang_results(list, language) ==
  LET matches(r) == r.language = language
  IN  sort_reverse(SelectSeq(list, matches))

\* the orders in which a for loop or a join may iterate over the set S
Orderings(S) ==
  { o \in [1..Cardinality(S) -> S] : \A l \in S : \E k \in DOMAIN o : o[k] = l }

\* (variant: only the first language is sent)
join_first_only(order) ==
  IF order = <<>> THEN <<>> ELSE order[1]

\* ",".join(missing), the set iterated in the order `order`
RECURSIVE join(_)
join(order) ==
  IF order = <<>> THEN <<>>
  ELSE IF Len(order) = 1 THEN order[1]
  ELSE order[1] \o <<",">> \o join(Tail(order))

Record(n, language, candidate) ==
  [item |-> n, language |-> language, rating |-> candidate.ratings,
   download_count |-> candidate.download_count]

\* ----------------------------------------------------------------- Init
NoResults == [is_none |-> TRUE, list |-> <<>>]
NoStats ==
  [total |-> 0, needs_subtitles |-> 0, downloaded |-> 0, errors |-> 0,
   skipped |-> 0]

\* locals of download_subtitles_for_item before the call and after it
ItemLocalsCleared ==
  /\ missing' = {}
  /\ todo' = {}
  /\ results' = NoResults
  /\ downloaded_count' = 0
  /\ lang' = <<>>
  /\ best' = NoCandidate
  /\ content' = None
  /\ downloaded' = 0

Init ==
  /\ len_items \in 1..MaxItems
  /\ item = NoItem
  /\ languages \in TargetSets
  /\ max_downloads \in Budgets
  /\ credentials \in BOOLEAN
  /\ api = [jwt_token |-> None, remaining_downloads |-> None,
            elapsed |-> MaxElapsed, since_acquire |-> 0]
  /\ download_report = <<>>
  /\ disk = {}
  /\ pc = "ctor"
  /\ i = 0
  /\ total_downloaded = 0
  /\ stats = NoStats
  /\ missing = {}
  /\ todo = {}
  /\ results = NoResults
  /\ downloaded_count = 0
  /\ lang = <<>>
  /\ best = NoCandidate
  /\ content = None
  /\ downloaded = 0
  /\ h = NewRun

\* -------------------------------------------------------------- actions
\* PlexSubtitleDownloader.__init__: logs in when credentials were given
Construct ==
  /\ pc = "ctor"
  /\ \E r \in LoginResponses :
       api' = IF credentials THEN login(api, r).api ELSE api
  /\ pc' = "pl_start"
  /\ UNCHANGED <<cfgVars, item, download_report, disk, runVars, itemVars, h>>

\* (variant: the number of items is not stored in the statistics)
ProcessLibraryStartUncounted ==
  /\ pc = "pl_start"
  /\ stats' = NoStats
  /\ total_downloaded' = 0
  /\ i' = 1
  /\ pc' = "pl_loop"
  /\ UNCHANGED <<cfgVars, item, api, download_report, disk, itemVars, h>>

\* process_library up to its loop
ProcessLibraryStart ==
  /\ pc = "pl_start"
  /\ stats' = [NoStats EXCEPT !.total = len_items]
  /\ total_downloaded' = 0
  /\ i' = 1
  /\ pc' = "pl_loop"
  /\ UNCHANGED <<cfgVars, item, api, download_report, disk, itemVars, h>>

\* (variant: a budget of 0 is a budget)
ProcessItemZeroIsLimit ==
  /\ pc = "pl_loop"
  /\ IF i > len_items
     THEN /\ pc' = "done"
          /\ UNCHANGED <<stats, h, item, disk>>
     ELSE IF max_downloads # None /\ total_downloaded >= max_downloads
     THEN /\ stats' = [stats EXCEPT !.skipped = len_items - i + 1]
          /\ pc' = "done"
          /\ UNCHANGED <<h, item, disk>>
     ELSE \E drawn \in ItemChoices :
            /\ item' = drawn
            /\ disk' = drawn.sidecars
            /\ h' = [h EXCEPT !.entered = @ + 1,
                              !.item.errors_at_start = stats.errors]
            /\ IF needs_subtitles(drawn) # {}
               THEN /\ stats' = [stats EXCEPT !.needs_subtitles = @ + 1]
                    /\ pc' = "dsi"
               ELSE /\ pc' = "pl_next"
                    /\ UNCHANGED stats
  /\ UNCHANGED <<cfgVars, api, download_report, i, total_downloaded, itemVars>>

\* (variant: the skipped count leaves out the item at which the loop stops)
ProcessItemMiscounts ==
  /\ pc = "pl_loop"
  /\ IF i > len_items
     THEN /\ pc' = "done"
          /\ UNCHANGED <<stats, h, item, disk>>
     ELSE IF max_downloads # None /\ max_downloads # 0
             /\ total_downloaded >= max_downloads
     THEN /\ stats' = [stats EXCEPT !.skipped = len_items - i]
          /\ pc' = "done"
          /\ UNCHANGED <<h, item, disk>>
     ELSE \E drawn \in ItemChoices :
            /\ item' = drawn
            /\ disk' = drawn.sidecars
            /\ h' = [h EXCEPT !.entered = @ + 1,
                              !.item.errors_at_start = stats.errors]
            /\ IF needs_subtitles(drawn) # {}
               THEN /\ stats' = [stats EXCEPT !.needs_subtitles = @ + 1]
                    /\ pc' = "dsi"
               ELSE /\ pc' = "pl_next"
                    /\ UNCHANGED stats
  /\ UNCHANGED <<cfgVars, api, download_report, i, total_downloaded, itemVars>>

\* process_library: loop head, budget check and gap check of item i; the
\* item's sidecar files are the ones found on disk beside it
ProcessItem ==
  /\ pc = "pl_loop"
  /\ IF i > len_items
     THEN /\ pc' = "done"
          /\ UNCHANGED <<stats, h, item, disk>>
     ELSE IF max_downloads # None /\ max_downloads # 0
             /\ total_downloaded >= max_downloads
     THEN /\ stats' = [stats EXCEPT !.skipped = len_items - i + 1]
          /\ pc' = "done"
          /\ UNCHANGED <<h, item, disk>>
     ELSE \E drawn \in ItemChoices :
            /\ item' = drawn
            /\ disk' = drawn.sidecars
            /\ h' = [h EXCEPT !.entered = @ + 1,
                              !.item.errors_at_start = stats.errors]
            /\ IF needs_subtitles(drawn) # {}
               THEN /\ stats' = [stats EXCEPT !.needs_subtitles = @ + 1]
                    /\ pc' = "dsi"
               ELSE /\ pc' = "pl_next"
                    /\ UNCHANGED stats
  /\ UNCHANGED <<cfgVars, api, download_report, i, total_downloaded, itemVars>>

\* (variant: the media path is not checked)
DownloadSubtitlesForItemAnyPath ==
  /\ pc = "dsi"
  /\ LET still == { l \in needs_subtitles(item) : ~subtitle_exists(l) }
     IN  IF still = {}
         THEN /\ downloaded' = 0
              /\ pc' = "pl_ret"
              /\ UNCHANGED <<missing, downloaded_count>>
         ELSE /\ missing' = still
              /\ downloaded_count' = 0
              /\ pc' = "search"
              /\ UNCHANGED downloaded
  /\ UNCHANGED <<cfgVars, item, api, download_report, disk, runVars, todo, results,
                 lang, best, content, h>>

\* download_subtitles_for_item up to the call of search_subtitles
DownloadSubtitlesForItem ==
  /\ pc = "dsi"
  /\ LET still == { l \in needs_subtitles(item) : ~subtitle_exists(l) }
     IN  IF item.path # "ok" \/ still = {}
         THEN /\ downloaded' = 0
              /\ pc' = "pl_ret"
              /\ UNCHANGED <<missing, downloaded_count>>
         ELSE /\ missing' = still
              /\ downloaded_count' = 0
              /\ pc' = "search"
              /\ UNCHANGED downloaded
  /\ UNCHANGED <<cfgVars, item, api, download_report, disk, runVars, todo, results,
                 lang, best, content, h>>

\* search_subtitles returns value res
ReturnFromSearch(res) ==
  /\ results' = res
  /\ pc' = "search_ret"

\* search_subtitles called with languages = ",".join(missing): limiter, GET,
\* rate-limit handling
SearchSubtitles ==
  /\ pc = "search"
  /\ \E r \in SearchResponses, order \in Orderings(missing) :
       LET a1 == Send(Acquire(api))
           hr == handle_rate_limit_error(a1, r)
       IN  /\ api' = hr.api
           /\ h' = [h EXCEPT !.item.search_log = Append(@, Exchange(a1, r)),
                             !.item.search_status = r.status,
                             !.item.searches = IF @ < 2 THEN @ + 1 ELSE 2,
                             !.item.search_languages = join(order)]
           /\ IF hr.retry
              THEN /\ pc' = "search_retry"
                   /\ UNCHANGED results
              ELSE ReturnFromSearch(search_result(r))
  /\ UNCHANGED <<cfgVars, item, download_report, disk, runVars, missing, todo,
                 downloaded_count, lang, best, content, downloaded>>

\* search_subtitles: the GET sent again after the rate-limit wait
SearchRetry ==
  /\ pc = "search_retry"
  /\ \E r \in SearchResponses :
       LET a1 == Send(api)
       IN  /\ api' = a1
           /\ h' = [h EXCEPT !.item.search_log = Append(@, Exchange(a1, r)),
                             !.item.search_status = r.status]
           /\ ReturnFromSearch(search_result(r))
  /\ UNCHANGED <<cfgVars, item, download_report, disk, runVars, missing, todo,
                 downloaded_count, lang, best, content, downloaded>>

\* download_subtitles_for_item from the return of search_subtitles to the loop
AfterSearch ==
  /\ pc = "search_ret"
  /\ IF results.is_none \/ results.list = <<>>
     THEN /\ downloaded' = 0
          /\ pc' = "pl_ret"
          /\ UNCHANGED todo
     ELSE /\ todo' = missing
          /\ pc' = "lang_loop"
          /\ UNCHANGED downloaded
  /\ h' = [h EXCEPT !.item.search_log = <<>>,
                    !.item.search_languages = <<>>]
  /\ UNCHANGED <<cfgVars, item, api, download_report, disk, runVars, missing,
                 results, downloaded_count, lang, best, content>>

\* (variant: the best candidate is the top-ranked one that has a file id)
LangLoopFallsBack ==
  /\ pc = "lang_loop"
  /\ IF todo = {}
     THEN /\ downloaded' = downloaded_count
          /\ pc' = "pl_ret"
          /\ UNCHANGED <<todo, lang, best, h>>
     ELSE \E l \in todo :
            LET sorted == lang_results(results.list, l)
                seen == [h EXCEPT !.item.visited = @ \cup {l}]
                usable == { k \in 1..Len(sorted) :
                              /\ sorted[k].files # <<>>
                              /\ sorted[k].files[1] \notin {None, 0} }
            IN  /\ todo' = todo \ {l}
                /\ lang' = l
                /\ UNCHANGED downloaded
                /\ IF usable = {}
                   THEN /\ pc' = "lang_loop"
                        /\ h' = seen
                        /\ UNCHANGED best
                   ELSE /\ best' = sorted[CHOOSE k \in usable :
                                            \A j \in usable : k <= j]
                        /\ pc' = "dl_entry"
                        /\ h' = [seen EXCEPT
                                   !.item.dl = NewDownloadCall(api),
                                   !.item.dl_calls = @ + 1]
  /\ UNCHANGED <<cfgVars, item, api, download_report, disk, runVars, missing,
                 results, downloaded_count, content>>

\* the for loop over the missing languages, up to the call of
\* download_subtitle; the set is iterated in an order the program does not fix
LangLoop ==
  /\ pc = "lang_loop"
  /\ IF todo = {}
     THEN /\ downloaded' = downloaded_count
          /\ pc' = "pl_ret"
          /\ UNCHANGED <<todo, lang, best, h>>
     ELSE \E l \in todo :
            LET sorted == lang_results(results.list, l)
                seen == [h EXCEPT !.item.visited = @ \cup {l}]
            IN  /\ todo' = todo \ {l}
                /\ lang' = l
                /\ UNCHANGED downloaded
                /\ IF sorted = <<>>
                   THEN /\ pc' = "lang_loop"
                        /\ h' = seen
                        /\ UNCHANGED best
                   ELSE /\ best' = sorted[1]
                        /\ IF sorted[1].files = <<>>
                           THEN /\ pc' = "pl_except"
                                /\ h' = seen
                           ELSE IF sorted[1].files[1] \in {None, 0}
                           THEN /\ pc' = "lang_loop"
                                /\ h' = seen
                           ELSE /\ pc' = "dl_entry"
                                /\ h' = [seen EXCEPT
                                           !.item.dl = NewDownloadCall(api),
                                           !.item.dl_calls = @ + 1]
  /\ UNCHANGED <<cfgVars, item, api, download_report, disk, runVars, missing,
                 results, downloaded_count, content>>

\* download_subtitle returns value c
ReturnFromDownload(c) ==
  /\ content' = c
  /\ pc' = "dl_ret"

\* download_subtitle: login when no token is held, then the quota check
DownloadEntry ==
  /\ pc = "dl_entry"
  /\ \E r \in LoginResponses :
       LET lg == IF api.jwt_token = None THEN login(api, r)
                 ELSE [api |-> api, ok |-> TRUE, sent |-> 0]
       IN  /\ api' = lg.api
           /\ h' = [h EXCEPT !.item.dl.sent = (@ \/ lg.sent = 1),
                             !.item.dl.post_log = <<>>]
           /\ IF ~lg.ok THEN ReturnFromDownload(None)
              ELSE IF quota_exhausted(lg.api) THEN ReturnFromDownload(None)
              ELSE /\ pc' = "dl_post"
                   /\ UNCHANGED content
  /\ UNCHANGED <<cfgVars, item, download_report, disk, runVars, missing, todo,
                 results, downloaded_count, lang, best, downloaded>>

\* (variant: the client counts the quota down itself)
HandleInitiationCounts(a, r) ==
  IF r.status = 200
  THEN /\ api' = [a EXCEPT !.remaining_downloads =
                     IF r.remaining # None THEN r.remaining
                     ELSE IF @ # None /\ @ > 0 THEN @ - 1 ELSE @]
       /\ IF r.link
          THEN /\ pc' = "dl_get"
               /\ UNCHANGED content
          ELSE ReturnFromDownload(None)
  ELSE IF r.status = 401
  THEN /\ api' = [a EXCEPT !.jwt_token = None]
       /\ IF credentials
          THEN /\ pc' = "dl_relogin"
               /\ UNCHANGED content
          ELSE ReturnFromDownload(None)
  ELSE /\ api' = a
       /\ ReturnFromDownload(None)

\* download_subtitle: what follows the answer to the initiation POST
HandleInitiation(a, r) ==
  IF r.status = 200
  THEN /\ api' = [a EXCEPT !.remaining_downloads =
                     IF r.remaining # None THEN r.remaining ELSE @]
       /\ IF r.link
          THEN /\ pc' = "dl_get"
               /\ UNCHANGED content
          ELSE ReturnFromDownload(None)
  ELSE IF r.status = 401
  THEN /\ api' = [a EXCEPT !.jwt_token = None]
       /\ IF credentials
          THEN /\ pc' = "dl_relogin"
               /\ UNCHANGED content
          ELSE ReturnFromDownload(None)
  ELSE /\ api' = a
       /\ ReturnFromDownload(None)

\* download_subtitle: limiter, initiation POST answered r, rate-limit
\* handling
InitiationSent(r) ==
  LET a1 == Send(Acquire(api))
      hr == handle_rate_limit_error(a1, r)
  IN  /\ h' = [h EXCEPT !.item.dl.sent = TRUE,
                        !.item.dl.post_log = Append(@, PostExchange(a1, r))]
      /\ IF hr.retry
         THEN /\ api' = hr.api
              /\ pc' = "dl_post_retry"
              /\ UNCHANGED content
         ELSE HandleInitiation(a1, r)

\* download_subtitle: the initiation POST sent again after the wait,
\* answered r
InitiationResent(r) ==
  LET a1 == Send(api)
  IN  /\ h' = [h EXCEPT !.item.dl.sent = TRUE,
                        !.item.dl.post_log = Append(@, PostExchange(a1, r))]
      /\ HandleInitiation(a1, r)

\* within a run the provider answers 401 to at most MaxRelogin rounds of
\* one call
DownloadPost ==
  /\ pc = "dl_post"
  /\ \E r \in PostResponses :
       /\ r.status = 401 => h.item.dl.relogins < MaxRelogin
       /\ InitiationSent(r)
  /\ UNCHANGED <<cfgVars, item, download_report, disk, runVars, missing, todo,
                 results, downloaded_count, lang, best, downloaded>>

DownloadPostRetry ==
  /\ pc = "dl_post_retry"
  /\ \E r \in PostResponses :
       /\ r.status = 401 => h.item.dl.relogins < MaxRelogin
       /\ InitiationResent(r)
  /\ UNCHANGED <<cfgVars, item, download_report, disk, runVars, missing, todo,
                 results, downloaded_count, lang, best, downloaded>>

\* (variant: a failed GET of the link is sent again)
DownloadGetRetries ==
  /\ pc = "dl_get"
  /\ \E r \in GetResponses :
       /\ api' = Send(api)
       /\ h' = [h EXCEPT !.item.dl.sent = TRUE,
                         !.item.dl.gets = IF @ < 2 THEN @ + 1 ELSE 2,
                         !.item.dl.get_status = r.status]
       /\ IF r.status = 200 \/ h.item.dl.gets >= 1
          THEN ReturnFromDownload(IF r.status = 200 THEN r.content ELSE None)
          ELSE /\ pc' = "dl_get"
               /\ UNCHANGED content
  /\ UNCHANGED <<cfgVars, item, download_report, disk, runVars, missing, todo,
                 results, downloaded_count, lang, best, downloaded>>

\* download_subtitle: GET of the download link
DownloadGet ==
  /\ pc = "dl_get"
  /\ \E r \in GetResponses :
       /\ api' = Send(api)
       /\ h' = [h EXCEPT !.item.dl.sent = TRUE,
                         !.item.dl.gets = IF @ < 2 THEN @ + 1 ELSE 2,
                         !.item.dl.get_status = r.status]
       /\ ReturnFromDownload(IF r.status = 200 THEN r.content ELSE None)
  /\ UNCHANGED <<cfgVars, item, download_report, disk, runVars, missing, todo,
                 results, downloaded_count, lang, best, downloaded>>

\* download_subtitle after a 401: login again, then the call of itself
\* (relogins: MaxRelogin standing for that many or more)
DownloadRelogin ==
  /\ pc = "dl_relogin"
  /\ \E r \in LoginResponses :
       LET lg == login(api, r)
       IN  /\ api' = lg.api
           /\ h' = [h EXCEPT !.item.dl.sent = (@ \/ lg.sent = 1),
                             !.item.dl.relogins =
                               IF @ < MaxRelogin THEN @ + 1 ELSE @,
                             !.item.dl.relogin_token =
                               IF lg.sent = 1 /\ r.status = 200 THEN r.token
                               ELSE None]
           /\ IF lg.ok
              THEN /\ pc' = "dl_entry"
                   /\ UNCHANGED content
              ELSE ReturnFromDownload(None)
  /\ UNCHANGED <<cfgVars, item, download_report, disk, runVars, missing, todo,
                 results, downloaded_count, lang, best, downloaded>>

\* (variant: the record is appended before the file is written)
save_subtitle_records_first(c, w) ==
  IF c # None /\ c > 0
  THEN [file |-> w # "open_error", recorded |-> TRUE, raised |-> FALSE,
        outcome |-> IF w = "ok" THEN "saved" ELSE "save_failed"]
  ELSE [file |-> FALSE, recorded |-> FALSE, raised |-> FALSE,
        outcome |-> "download_failed"]

\* (variant: the write is not inside a try block)
save_subtitle_unguarded(c, w) ==
  IF c # None /\ c > 0
  THEN [file |-> w # "open_error", recorded |-> w = "ok", raised |-> w # "ok",
        outcome |-> IF w = "ok" THEN "saved" ELSE "save_failed"]
  ELSE [file |-> FALSE, recorded |-> FALSE, raised |-> FALSE,
        outcome |-> "download_failed"]

\* the loop body after download_subtitle returned c, the write ending as w:
\* is a file left on disk, is the download counted and recorded, does an
\* exception leave the loop (the write is inside try/except Exception)
save_subtitle(c, w) ==
  IF c # None /\ c > 0
  THEN [file |-> w # "open_error", recorded |-> w = "ok", raised |-> FALSE,
        outcome |-> IF w = "ok" THEN "saved" ELSE "save_failed"]
  ELSE [file |-> FALSE, recorded |-> FALSE, raised |-> FALSE,
        outcome |-> "download_failed"]

SaveSubtitle ==
  /\ pc = "dl_ret"
  /\ \E w \in WriteOutcomes :
       LET sv == save_subtitle(content, w)
       IN  /\ disk' = IF sv.file THEN disk \cup {lang} ELSE disk
           /\ downloaded_count' =
                IF sv.recorded THEN downloaded_count + 1 ELSE downloaded_count
           /\ download_report' =
                IF sv.recorded THEN Append(download_report, Record(i, lang, best))
                ELSE download_report
           /\ h' = [h EXCEPT !.item.attempts = Append(@, <<lang, sv.outcome>>),
                             !.item.dl = NoDownloadCall]
           /\ pc' = IF sv.raised THEN "pl_except" ELSE "lang_loop"
  /\ UNCHANGED <<cfgVars, item, api, runVars, missing, todo, results, lang,
                 best, content, downloaded>>

\* process_library after download_subtitles_for_item returned
ItemReturn ==
  /\ pc = "pl_ret"
  /\ IF downloaded > 0
     THEN /\ stats' = [stats EXCEPT !.downloaded = @ + downloaded]
          /\ total_downloaded' = total_downloaded + downloaded
     ELSE UNCHANGED <<stats, total_downloaded>>
  /\ pc' = "pl_next"
  /\ UNCHANGED <<cfgVars, item, api, download_report, disk, i, itemVars, h>>

\* (variant: the error ends the loop uncounted)
ItemExceptAborts ==
  /\ pc = "pl_except"
  /\ h' = [h EXCEPT !.raised = @ + 1]
  /\ pc' = "done"
  /\ UNCHANGED <<cfgVars, item, api, download_report, disk, runVars, itemVars>>

\* process_library: the except clause around one item
ItemExcept ==
  /\ pc = "pl_except"
  /\ stats' = [stats EXCEPT !.errors = @ + 1]
  /\ h' = [h EXCEPT !.raised = @ + 1]
  /\ pc' = "pl_next"
  /\ UNCHANGED <<cfgVars, item, api, download_report, disk, i,
                 total_downloaded, itemVars>>

\* process_library: on to the next item
NextItem ==
  /\ pc = "pl_next"
  /\ i' = i + 1
  /\ pc' = "pl_loop"
  /\ item' = NoItem
  /\ disk' = {}
  /\ ItemLocalsCleared
  /\ h' = [h EXCEPT !.item = NewItem]
  /\ UNCHANGED <<cfgVars, api, download_report, total_downloaded, stats>>

Next ==
  \/ Construct
  \/ ProcessLibraryStart
  \/ ProcessItem
  \/ DownloadSubtitlesForItem
  \/ SearchSubtitles
  \/ SearchRetry
  \/ AfterSearch
  \/ LangLoop
  \/ DownloadEntry
  \/ DownloadPost
  \/ DownloadPostRetry
  \/ DownloadGet
  \/ DownloadRelogin
  \/ SaveSubtitle
  \/ ItemReturn
  \/ ItemExcept
  \/ NextItem

Spec == Init /\ [][Next]_vars

\* ------------------------------------------ the rate limiter on its own
\* _wait_for_rate_limit called at arbitrary times; h measures the time
\* between its returns
InitLimiter ==
  /\ len_items = 1
  /\ item = NoItem
  /\ languages = {en}
  /\ max_downloads = None
  /\ credentials = TRUE
  /\ api = [jwt_token |-> None, remaining_downloads |-> None,
            elapsed |-> MaxElapsed, since_acquire |-> 0]
  /\ download_report = <<>>
  /\ disk = {}
  /\ pc = "limiter"
  /\ i = 0
  /\ total_downloaded = 0
  /\ stats = NoStats
  /\ missing = {}
  /\ todo = {}
  /\ results = NoResults
  /\ downloaded_count = 0
  /\ lang = <<>>
  /\ best = NoCandidate
  /\ content = None
  /\ downloaded = 0
  /\ h = [calls |-> 0, since_return |-> MaxElapsed, gap |-> MaxElapsed,
          elapsed_at_call |-> MaxElapsed, slept |-> 0]

\* one tick of time passes
Elapse ==
  /\ pc = "limiter"
  /\ api.elapsed < MaxElapsed
  /\ api' = [api EXCEPT !.elapsed = @ + 1]
  /\ h' = [h EXCEPT !.since_return = @ + 1]
  /\ UNCHANGED <<cfgVars, item, download_report, disk, pc, runVars, itemVars>>

WaitForRateLimit ==
  /\ pc = "limiter"
  /\ h.calls < MaxCalls
  /\ \E overshoot \in Overshoots :
       LET w == wait_for_rate_limit(api.elapsed, overshoot)
       IN  /\ api' = Acquire(api)
           /\ h' = [calls |-> h.calls + 1, since_return |-> 0,
                    gap |-> h.since_return + w.passed,
                    elapsed_at_call |-> api.elapsed, slept |-> w.sleep_time]
  /\ UNCHANGED <<cfgVars, item, download_report, disk, pc, runVars, itemVars>>

NextLimiter == Elapse \/ WaitForRateLimit

SpecLimiter == InitLimiter /\ [][NextLimiter]_vars

\* ---------------------------------------- the pure functions on their own
\* the sequences over S of length lo to hi
SeqsOf(S, lo, hi) == UNION { [1..k -> S] : k \in lo..hi }

\* the variables a specification of one function leaves at rest
AtRest ==
  /\ len_items = 1
  /\ max_downloads = None
  /\ credentials = TRUE
  /\ api = [jwt_token |-> None, remaining_downloads |-> None,
            elapsed |-> MaxElapsed, since_acquire |-> 0]
  /\ download_report = <<>>
  /\ disk = {}
  /\ i = 0
  /\ total_downloaded = 0
  /\ stats = NoStats
  /\ todo = {}
  /\ downloaded_count = 0
  /\ content = None
  /\ downloaded = 0

\* ---- needs_subtitles(item) for every stream list and target set
StreamTags ==
  { <<>>, en, es, <<"E", "N", "G">>, <<"e", "n", "g">>, <<"s", "p", "a">>,
    <<"f", "r", "a">>, <<"j", "p", "n">> }

GapTargetSets == SUBSET {en, es, fr}

InitGap ==
  /\ AtRest
  /\ item \in { Item(s, "ok", {}) : s \in SeqsOf(StreamTags, 0, MaxStreams) }
  /\ languages \in GapTargetSets
  /\ pc = "gap"
  /\ missing = {}
  /\ results = NoResults
  /\ lang = <<>>
  /\ best = NoCandidate
  /\ h = NewRun

NeedsSubtitles ==
  /\ pc = "gap"
  /\ missing' = needs_subtitles(item)
  /\ pc' = "gap_ret"
  /\ UNCHANGED <<cfgVars, item, api, download_report, disk, runVars, todo,
                 results, downloaded_count, lang, best, content, downloaded, h>>

NextGap == NeedsSubtitles

SpecGap == InitGap /\ [][NextGap]_vars

\* ---- the normalization of one language code, applied and applied again
Alphabet == {"e", "n", "g", "E", "N", "G"}

InitNormalize ==
  /\ AtRest
  /\ item = NoItem
  /\ languages = {en}
  /\ pc = "norm"
  /\ missing = {}
  /\ results = NoResults
  /\ lang = <<>>
  /\ best = NoCandidate
  /\ h \in [languageCode : SeqsOf(Alphabet, 1, MaxTagLen), lang_code : {<<>>},
            again : {<<>>}]

Normalize ==
  /\ pc = "norm"
  /\ h' = [h EXCEPT !.lang_code = normalize(h.languageCode)]
  /\ pc' = "norm_ret"
  /\ UNCHANGED <<cfgVars, item, api, download_report, disk, runVars, itemVars>>

NormalizeAgain ==
  /\ pc = "norm_ret"
  /\ h' = [h EXCEPT !.again = normalize(h.lang_code)]
  /\ pc' = "norm_again"
  /\ UNCHANGED <<cfgVars, item, api, download_report, disk, runVars, itemVars>>

NextNormalize == Normalize \/ NormalizeAgain

SpecNormalize == InitNormalize /\ [][NextNormalize]_vars

\* ---- the choice of lang_results[0] for every result list and language
RankCandidates ==
  { Candidate(l, r, d, <<f>>) :
      l \in {en, es}, r \in {7, 9}, d \in {200, 500}, f \in {1, 2} }

InitRank ==
  /\ AtRest
  /\ item = NoItem
  /\ languages = {en, es}
  /\ pc = "rank"
  /\ missing = {}
  /\ results \in [is_none : {FALSE},
                  list : SeqsOf(RankCandidates, 1, MaxResults)]
  /\ lang \in {en, es}
  /\ best = NoCandidate
  /\ h = [selected |-> FALSE]

\* one pass of the for loop up to best = lang_results[0]
SelectBest ==
  /\ pc = "rank"
  /\ LET sorted == lang_results(results.list, lang)
     IN  /\ best' = IF sorted = <<>> THEN NoCandidate ELSE sorted[1]
         /\ h' = [selected |-> sorted # <<>>]
  /\ pc' = "rank_ret"
  /\ UNCHANGED <<cfgVars, item, api, download_report, disk, runVars, missing,
                 todo, results, downloaded_count, lang, content, downloaded>>

NextRank == SelectBest

SpecRank == InitRank /\ [][NextRank]_vars

\* ---- the search parameters built from an item's guids and kind
\* a guid "imdb://tt<id>", "tmdb://<id>" or "tvdb://<id>"
Guid(scheme, id) == [scheme |-> scheme, id |-> id]

Guids == { Guid("imdb", 1), Guid("tmdb", 2), Guid("tvdb", 3) }

Video(guids, kind) == [guids |-> guids, kind |-> kind]

\* the guid at which the loop over item.guids breaks: the first one that
\* is an imdb or a tmdb guid (a record without scheme when there is none)
first_external(guids) ==
  LET hits == { k \in 1..Len(guids) : guids[k].scheme \in {"imdb", "tmdb"} }
  IN  IF hits = {} THEN Guid("", None)
      ELSE guids[CHOOSE k \in hits : \A j \in hits : k <= j]

\* search_params without languages and file_size; an absent key is None,
\* an absent query the empty string
search_params(video) ==
  LET g == first_external(video.guids)
      imdb_id == IF g.scheme = "imdb" THEN g.id ELSE None
      tmdb_id == IF g.scheme = "tmdb" THEN g.id ELSE None
      episode == video.kind = "episode"
  IN  [imdb_id |-> imdb_id,
       tmdb_id |-> tmdb_id,
       season_number |-> IF episode THEN 1 ELSE None,
       episode_number |-> IF episode THEN 1 ELSE None,
       query |-> IF imdb_id = None /\ tmdb_id = None
                 THEN IF episode THEN "grandparentTitle" ELSE "title"
                 ELSE ""]

NoParams ==
  [imdb_id |-> None, tmdb_id |-> None, season_number |-> None,
   episode_number |-> None, query |-> ""]

InitCriteria ==
  /\ AtRest
  /\ item \in { Video(g, k) : g \in SeqsOf(Guids, 0, MaxGuids),
                              k \in {"movie", "episode"} }
  /\ languages = {en}
  /\ pc = "criteria"
  /\ missing = {en}
  /\ results = NoResults
  /\ lang = <<>>
  /\ best = NoCandidate
  /\ h = [search_params |-> NoParams]

BuildSearchParams ==
  /\ pc = "criteria"
  /\ h' = [search_params |-> search_params(item)]
  /\ pc' = "criteria_ret"
  /\ UNCHANGED <<cfgVars, item, api, download_report, disk, runVars, itemVars>>

NextCriteria == BuildSearchParams

SpecCriteria == InitCriteria /\ [][NextCriteria]_vars

\* ---- process_all_libraries, process_library being its returned count
\* the types of the sections of the Plex server
SectionTypes == {"movie", "show", "artist"}

RunBudgets == {None} \cup (0..MaxRunBudget)

\* (variant: every library is given the whole budget)
remaining_budget_whole(budget, so_far) ==
  IF budget # None /\ budget # 0
  THEN [is_none |-> FALSE, value |-> budget]
  ELSE [is_none |-> TRUE, value |-> 0]

\* `remaining` as process_all_libraries computes it before a library; it
\* can be negative, so that None is a field of its own
remaining_budget(budget, so_far) ==
  IF budget # None /\ budget # 0
  THEN [is_none |-> FALSE, value |-> budget - so_far]
  ELSE [is_none |-> TRUE, value |-> 0]

\* the download counts process_library can return under the budget it is
\* given: the budget is tested between items only, so the last item may take
\* the count over it by its other languages
LibraryDownloads(budget) ==
  { d \in 0..MaxLibraryDownloads : budget.is_none \/ d <= budget.value + 1 }

InitAllLibraries ==
  /\ len_items = 1
  /\ item = NoItem
  /\ languages = {en, es}
  /\ max_downloads \in RunBudgets
  /\ credentials = TRUE
  /\ api = [jwt_token |-> None, remaining_downloads |-> None,
            elapsed |-> MaxElapsed, since_acquire |-> 0]
  /\ download_report = <<>>
  /\ disk = {}
  /\ pc = "all_loop"
  /\ i = 1
  /\ total_downloaded = 0
  /\ stats = NoStats
  /\ missing = {}
  /\ todo = {}
  /\ results = NoResults
  /\ downloaded_count = 0
  /\ lang = <<>>
  /\ best = NoCandidate
  /\ content = None
  /\ downloaded = 0
  /\ h \in [sections : SeqsOf(SectionTypes, 0, MaxLibraries), calls : {<<>>}]

\* one iteration of the loop over the sections; h.calls lists the budget
\* each call of process_library was given and the count it returned
\* (of the statistics it returns only the download count is followed)
ProcessAllLibraries ==
  /\ pc = "all_loop"
  /\ IF i > Len(h.sections)
     THEN /\ pc' = "all_done"
          /\ UNCHANGED <<i, total_downloaded, stats, h>>
     ELSE /\ i' = i + 1
          /\ pc' = "all_loop"
          /\ IF h.sections[i] \notin {"movie", "show"}
             THEN UNCHANGED <<total_downloaded, stats, h>>
             ELSE LET remaining ==
                        remaining_budget(max_downloads, total_downloaded)
                  IN  IF ~remaining.is_none /\ remaining.value <= 0
                      THEN UNCHANGED <<total_downloaded, stats, h>>
                      ELSE \E d \in LibraryDownloads(remaining) :
                             /\ stats' = [stats EXCEPT !.downloaded = @ + d]
                             /\ total_downloaded' = stats.downloaded + d
                             /\ h' = [h EXCEPT !.calls =
                                        Append(@, [budget |-> remaining,
                                                   downloaded |-> d])]
  /\ UNCHANGED <<cfgVars, item, api, download_report, disk, itemVars>>

NextAllLibraries == ProcessAllLibraries

SpecAllLibraries == InitAllLibraries /\ [][NextAllLibraries]_vars

\* ---- main: start-up, processing, report, interrupt
\* --library names a library that exists, names one that does not, or is
\* absent (all libraries)
LibraryArgs == {"found", "missing", "all"}

ReportWrites == {"ok", "error"}

InitMain ==
  /\ AtRest
  /\ item = NoItem
  /\ languages = {en}
  /\ pc = "main"
  /\ missing = {}
  /\ results = NoResults
  /\ lang = <<>>
  /\ best = NoCandidate
  /\ h \in [plex_ok : BOOLEAN, library : LibraryArgs, login_ok : {TRUE},
            processed : {0}, interrupted : {FALSE}, printed : {<<>>},
            saved : {<<>>}, exit_code : {None}]

\* PlexSubtitleDownloader(...) in main: a failure to reach the Plex server
\* raises and ends the run; the result of the login is not looked at
MainInit ==
  /\ pc = "main"
  /\ IF ~h.plex_ok
     THEN /\ h' = [h EXCEPT !.exit_code = 1]
          /\ pc' = "exit"
          /\ UNCHANGED api
     ELSE \E r \in LoginResponses :
            /\ api' = login(api, r).api
            /\ h' = [h EXCEPT !.login_ok = login(api, r).ok]
            /\ pc' = "process"
  /\ UNCHANGED <<cfgVars, item, download_report, disk, runVars, itemVars>>

\* one item of the run is processed: it adds an entry to download_report
\* or none
MainProcessItem ==
  /\ pc = "process"
  /\ h.library # "missing"
  /\ h.processed < MaxSteps
  /\ h' = [h EXCEPT !.processed = @ + 1]
  /\ \/ download_report' = download_report
     \/ download_report' =
          Append(download_report,
                 Record(h.processed + 1, en, Candidate(en, 7, 500, <<1>>)))
  /\ UNCHANGED <<cfgVars, item, api, disk, pc, runVars, itemVars>>

\* process_library or process_all_libraries returns; a library that is not
\* found makes process_library return {} at once
MainProcessReturns ==
  /\ pc = "process"
  /\ pc' = "report"
  /\ UNCHANGED <<cfgVars, item, api, download_report, disk, runVars,
                 itemVars, h>>

\* an exception leaves process_library: logged, exit status 1
MainProcessFails ==
  /\ pc = "process"
  /\ h.library # "missing"
  /\ h' = [h EXCEPT !.exit_code = 1]
  /\ pc' = "exit"
  /\ UNCHANGED <<cfgVars, item, api, download_report, disk, runVars, itemVars>>

\* the report is printed, and saved when it has entries; main then returns
MainReport ==
  /\ pc = "report"
  /\ \E w \in ReportWrites :
       h' = [h EXCEPT !.printed = download_report,
                      !.saved = IF w = "ok" THEN download_report ELSE @,
                      !.exit_code = IF download_report # <<>> /\ w = "error"
                                    THEN 1 ELSE 0]
  /\ pc' = "exit"
  /\ UNCHANGED <<cfgVars, item, api, download_report, disk, runVars, itemVars>>

\* (variant: the interrupt handler exits at once)
MainInterruptedExits ==
  /\ pc \in {"process", "report"}
  /\ h' = [h EXCEPT !.interrupted = TRUE, !.exit_code = 0]
  /\ pc' = "exit"
  /\ UNCHANGED <<cfgVars, item, api, download_report, disk, runVars, itemVars>>

\* KeyboardInterrupt during processing or reporting: the handler prints and
\* saves the report when it has entries; an error of the save leaves the
\* handler as an uncaught exception
MainInterrupted ==
  /\ pc \in {"process", "report"}
  /\ \E w \in ReportWrites :
       h' = [h EXCEPT !.interrupted = TRUE,
                      !.printed = download_report,
                      !.saved = IF w = "ok" THEN download_report ELSE @,
                      !.exit_code = IF download_report # <<>> /\ w = "error"
                                    THEN 1 ELSE 0]
  /\ pc' = "exit"
  /\ UNCHANGED <<cfgVars, item, api, download_report, disk, runVars, itemVars>>

NextMain ==
  \/ MainInit
  \/ MainProcessItem
  \/ MainProcessReturns
  \/ MainProcessFails
  \/ MainReport
  \/ MainInterrupted

SpecMain == InitMain /\ [][NextMain]_vars

\* ---- the items process_library scans, for every library and filter
\* what library.all() returns: movies, shows (each with its number of
\* episodes) or artists
Entry(kind, episodes) == [kind |-> kind, episodes |-> episodes]

Libraries ==
  { [type |-> "movie", all |-> a] :
      a \in SeqsOf({Entry("movie", 0)}, 0, MaxShows) }
    \cup { [type |-> "show", all |-> a] :
             a \in SeqsOf({ Entry("show", n) : n \in 0..MaxEpisodes },
                          0, MaxShows) }
    \cup { [type |-> "artist", all |-> a] :
             a \in SeqsOf({Entry("artist", 0)}, 0, MaxShows) }

\* --type: "" when the option is absent
MediaTypes == {"", "movie", "episode"}

\* the kinds of the items of `for show in all: for episode in show.episodes()`
RECURSIVE episodes_of(_)
episodes_of(all) ==
  IF all = <<>> THEN <<>>
  ELSE [k \in 1..all[1].episodes |-> "episode"] \o episodes_of(Tail(all))

\* the kinds of the items process_library collects; `raised` when an entry
\* that is not a show is asked for its episodes
scan(media_type, library) ==
  IF media_type = "movie" \/ library.type = "movie"
  THEN [supported |-> TRUE, raised |-> FALSE,
        items |-> [k \in 1..Len(library.all) |-> library.all[k].kind]]
  ELSE IF media_type = "episode" \/ library.type = "show"
  THEN IF library.type = "show"
       THEN [supported |-> TRUE, raised |-> FALSE,
             items |-> episodes_of(library.all)]
       ELSE [supported |-> TRUE, raised |-> library.all # <<>>,
             items |-> <<>>]
  ELSE [supported |-> FALSE, raised |-> FALSE, items |-> <<>>]

InitScan ==
  /\ AtRest
  /\ item = NoItem
  /\ languages = {en}
  /\ pc = "scan"
  /\ missing = {}
  /\ results = NoResults
  /\ lang = <<>>
  /\ best = NoCandidate
  /\ h \in [media_type : MediaTypes, library : Libraries,
            scanned : {[supported |-> FALSE, raised |-> FALSE,
                        items |-> <<>>]}]

ScanLibrary ==
  /\ pc = "scan"
  /\ h' = [h EXCEPT !.scanned = scan(h.media_type, h.library)]
  /\ pc' = "scan_ret"
  /\ UNCHANGED <<cfgVars, item, api, download_report, disk, runVars, itemVars>>

NextScan == ScanLibrary

SpecScan == InitScan /\ [][NextScan]_vars

\* ---- download_subtitle on its own, the provider free to answer 401 to
\* every initiation
InitDownload ==
  /\ len_items = 1
  /\ item = Item(<<>>, "ok", {})
  /\ languages = {en}
  /\ max_downloads = None
  /\ credentials \in BOOLEAN
  /\ api \in [jwt_token : Tokens \cup {None},
              remaining_downloads : {None} \cup (0..MaxRemaining),
              elapsed : 0..MaxElapsed, since_acquire : {0}]
  /\ download_report = <<>>
  /\ disk = {}
  /\ pc = "dl_entry"
  /\ i = 1
  /\ total_downloaded = 0
  /\ stats = [NoStats EXCEPT !.total = 1, !.needs_subtitles = 1]
  /\ missing = {en}
  /\ todo = {}
  /\ results = [is_none |-> FALSE, list |-> << Candidate(en, 7, 500, <<1>>) >>]
  /\ downloaded_count = 0
  /\ lang = en
  /\ best = Candidate(en, 7, 500, <<1>>)
  /\ content = None
  /\ downloaded = 0
  /\ h = [NewRun EXCEPT !.entered = 1,
                        !.item.visited = {en},
                        !.item.dl_calls = 1,
                        !.item.dl = NewDownloadCall(api)]

DownloadPostAlone ==
  /\ pc = "dl_post"
  /\ \E r \in PostResponses : InitiationSent(r)
  /\ UNCHANGED <<cfgVars, item, download_report, disk, runVars, missing, todo,
                 results, downloaded_count, lang, best, downloaded>>

DownloadPostRetryAlone ==
  /\ pc = "dl_post_retry"
  /\ \E r \in PostResponses : InitiationResent(r)
  /\ UNCHANGED <<cfgVars, item, download_report, disk, runVars, missing, todo,
                 results, downloaded_count, lang, best, downloaded>>

NextDownload ==
  \/ DownloadEntry
  \/ DownloadPostAlone
  \/ DownloadPostRetryAlone
  \/ DownloadGet
  \/ DownloadRelogin

\* the call runs on: a step that can be taken is taken
SpecDownload == InitDownload /\ [][NextDownload]_vars /\ WF_vars(NextDownload)

\* ---- download_subtitles_for_item called twice for the same item
\* h also holds what the first call left: the languages it saved, its
\* `missing`, and the client as it was when the second call began
InitRerun ==
  /\ len_items = 1
  /\ item \in ItemChoices
  /\ languages \in TargetSets
  /\ max_downloads = None
  /\ credentials = TRUE
  /\ api \in [jwt_token : Tokens \cup {None}, remaining_downloads : {None},
              elapsed : {MaxElapsed}, since_acquire : {0}]
  /\ download_report = <<>>
  /\ disk = item.sidecars
  /\ pc = "dsi"
  /\ i = 1
  /\ total_downloaded = 0
  /\ stats = [NoStats EXCEPT !.total = 1, !.needs_subtitles = 1]
  /\ missing = {}
  /\ todo = {}
  /\ results = NoResults
  /\ downloaded_count = 0
  /\ lang = <<>>
  /\ best = NoCandidate
  /\ content = None
  /\ downloaded = 0
  /\ h = [item |-> NewItem, entered |-> 1, raised |-> 0, pass |-> 1,
          saved |-> {}, missing_first |-> {}, api_first |-> api]

\* the first call has returned or raised; the item is processed again, its
\* metadata and the files beside it as the first call left them
CallAgain ==
  /\ pc \in {"pl_ret", "pl_except"}
  /\ h.pass = 1
  /\ pc' = "dsi"
  /\ ItemLocalsCleared
  /\ h' = [h EXCEPT !.item = NewItem,
                    !.pass = 2,
                    !.saved = { l \in languages :
                                  \E k \in 1..Len(h.item.attempts) :
                                    h.item.attempts[k] = <<l, "saved">> },
                    !.missing_first = missing,
                    !.api_first = api]
  /\ UNCHANGED <<cfgVars, item, api, download_report, disk, runVars>>

NextRerun ==
  \/ DownloadSubtitlesForItem
  \/ SearchSubtitles
  \/ SearchRetry
  \/ AfterSearch
  \/ LangLoop
  \/ DownloadEntry
  \/ DownloadPost
  \/ DownloadPostRetry
  \/ DownloadGet
  \/ DownloadRelogin
  \/ SaveSubtitle
  \/ CallAgain

SpecRerun == InitRerun /\ [][NextRerun]_vars

\* ---- process_library and process_all_libraries side by side, each under
\* every budget
InitBudgets == Init \/ InitAllLibraries

NextBudgets == Next \/ NextAllLibraries

SpecBudgets == InitBudgets /\ [][NextBudgets]_vars

\* ================================================================ claims
Last(log) == log[Len(log)]

\* C1: whenever the tracked remaining-download counter is known and zero or
\* less when download_subtitle is called, the call returns failure and has
\* sent no request at all, with or without a session token.
C1_QuotaFailsFast ==
  (pc = "dl_ret" /\ h.item.dl.zero_at_entry)
    => (content = None /\ ~h.item.dl.sent)

\* C2: within one download_subtitle call a 401 on the initiation leads to at
\* most one re-login and re-sent initiation; a second 401 ends the call.
C2_OneRetryOn401 ==
  pc \in {"dl_entry", "dl_post", "dl_post_retry", "dl_get", "dl_relogin",
          "dl_ret"}
    => h.item.dl.relogins <= 1

\* the 429 discipline on the requests `log` of one call: a second request is
\* sent only after a 429 with Retry-After and only once that wait has passed
RetryDiscipline(log) ==
  /\ Len(log) <= 2
  /\ Len(log) = 2 =>
       /\ log[1].status = 429
       /\ log[1].retry_after # None
       /\ log[2].sent_at - log[1].sent_at >= log[1].retry_after * TicksPerSecond

\* the call whose requests are `log` is over: a 429 with Retry-After on the
\* first request was followed by the second request
RetryCompleted(log) ==
  (log # <<>> /\ log[1].status = 429 /\ log[1].retry_after # None)
    => Len(log) = 2

\* C3: search_subtitles and the download initiation re-send their request
\* exactly once after a 429 with Retry-After, having slept that long; a 429
\* on the re-sent request, or a 429 without Retry-After, fails the call with
\* no further request.
C3_RetryOnceOn429 ==
  /\ RetryDiscipline(h.item.search_log)
  /\ RetryDiscipline(h.item.dl.post_log)
  /\ pc = "search_retry" => Len(h.item.search_log) = 1
  /\ pc = "dl_post_retry" => Len(h.item.dl.post_log) = 1
  /\ pc = "search_ret" =>
       /\ RetryCompleted(h.item.search_log)
       /\ Last(h.item.search_log).status = 429 => results.is_none
  /\ (pc \in {"dl_get", "dl_relogin", "dl_ret"} /\ h.item.dl.post_log # <<>>) =>
       /\ RetryCompleted(h.item.dl.post_log)
       /\ Last(h.item.dl.post_log).status = 429 =>
            (pc = "dl_ret" /\ content = None)

C3_Witness ==
  /\ pc = "dl_ret"
  /\ Len(h.item.dl.post_log) = 2
  /\ h.item.dl.post_log[2].status = 429
  /\ h.item.dl.post_log[2].retry_after # None

\* C4: every outbound request is preceded by its own return of
\* _wait_for_rate_limit: never two requests after one acquisition.
C4_EveryRequestThrottled == api.since_acquire <= 1

\* C5: two consecutive returns of _wait_for_rate_limit are at least
\* min_request_interval apart, whatever time passed between the calls; the
\* limiter asks to sleep exactly the missing part of the interval, and
\* nothing when the interval has passed.
C5_MinimumInterval ==
  (pc = "limiter" /\ h.calls >= 1) =>
    /\ h.calls >= 2 => h.gap >= min_request_interval
    /\ h.elapsed_at_call >= min_request_interval => h.slept = 0
    /\ h.elapsed_at_call < min_request_interval =>
         h.elapsed_at_call + h.slept = min_request_interval

C5_Witness ==
  /\ pc = "limiter"
  /\ h.calls >= 2
  /\ h.elapsed_at_call > 0
  /\ h.slept > 0

\* C6: with a budget max_downloads = N >= 1 the run never downloads more
\* than N subtitles.
C6_BudgetNeverExceeded ==
  (max_downloads # None /\ max_downloads >= 1)
    => Len(download_report) <= max_downloads

\* the entries of download_report for language l of the current item
EntriesFor(l) ==
  { k \in 1..Len(download_report) :
      download_report[k].item = i /\ download_report[k].language = l }

Attempts == { h.item.attempts[k] : k \in 1..Len(h.item.attempts) }

Downloadable(l) ==
  LET sorted == lang_results(results.list, l)
  IN  /\ sorted # <<>>
      /\ sorted[1].files # <<>>
      /\ sorted[1].files[1] \notin {None, 0}

C9_ErrorsDoNotAbort ==
  /\ stats.errors <= h.raised
  /\ pc \in {"pl_loop", "pl_next", "done"} => stats.errors = h.raised
  /\ pc = "done" =>
       /\ h.entered + stats.skipped = len_items
       /\ stats.skipped > 0 =>
            (max_downloads # None /\ max_downloads # 0
               /\ total_downloaded >= max_downloads)

C9_Witness ==
  /\ pc = "pl_ret"
  /\ h.raised = 1
  /\ stats.errors = 1

\* C10: a search answered 406 makes search_subtitles return the empty list,
\* not None; the item then ends with no download call and the value 0, and
\* the error count is the one the item started with.
C10_NoResultsIsNotAnError ==
  h.item.search_status = 406 =>
    /\ pc \in {"search_ret", "pl_ret", "pl_next"}
    /\ results = [is_none |-> FALSE, list |-> <<>>]
    /\ h.item.dl_calls = 0
    /\ stats.errors = h.item.errors_at_start
    /\ pc \in {"pl_ret", "pl_next"} => downloaded = 0

C10_Witness ==
  /\ h.item.search_status = 406
  /\ pc = "pl_next"
  /\ i < len_items

\* C11: when search_subtitles returns None the item ends without a download
\* call and with an error that is counted, which tells it apart from an item
\* whose search found nothing.
C11_SearchFailureIsAnError ==
  (pc = "pl_next" /\ h.item.searches >= 1 /\ results.is_none) =>
    /\ h.item.dl_calls = 0
    /\ stats.errors = h.item.errors_at_start + 1

\* the language tags of the subtitle streams that carry one
LabelledTags(video) ==
  { video.streams[k] :
      k \in { j \in 1..Len(video.streams) : video.streams[j] # <<>> } }

\* C12: for every target set and every list of subtitle streams,
\* needs_subtitles returns exactly the targets that are not the normalized
\* code of a stream's language tag.
C12_MissingIsTargetsMinusExisting ==
  pc = "gap_ret" =>
    /\ missing = languages \ { normalize(t) : t \in LabelledTags(item) }
    /\ \A l \in languages :
         l \in missing <=> \A t \in LabelledTags(item) : normalize(t) # l

C12_Witness ==
  /\ pc = "gap_ret"
  /\ item.streams = << <<"E", "N", "G">> >>
  /\ languages = {en, es}
  /\ missing = {es}

\* C13: a subtitle stream without a language tag counts as an existing
\* subtitle in en: an item with such a stream is not reported as missing en.
C13_UnlabeledCountsAsDefault ==
  (pc = "gap_ret" /\ \E k \in 1..Len(item.streams) : item.streams[k] = <<>>)
    => en \notin missing

\* C14: normalizing a normalized language code returns it unchanged, for
\* every tag.
C14_NormalizeIdempotent ==
  pc = "norm_again" => h.again = h.lang_code

C14_Witness ==
  /\ pc = "norm_again"
  /\ h.languageCode = <<"G", "E", "N">>
  /\ h.lang_code = <<"g", "e">>
  /\ h.again = <<"g", "e">>

\* the positions of the results in the language of the loop
Matching ==
  { k \in 1..Len(results.list) : results.list[k].language = lang }

\* x ranks above y: higher rating, or the same rating and more downloads
Better(x, y) ==
  \/ x.ratings > y.ratings
  \/ x.ratings = y.ratings /\ x.download_count > y.download_count

\* C15: the chosen candidate is, among the results of the language, the
\* first in list order of those that no result of the language ranks above
\* (rating first, download count second).
C15_BestIsTopRankedFirstSeen ==
  (pc = "rank_ret" /\ h.selected) =>
    /\ Matching # {}
    /\ LET top == { k \in Matching :
                      \A j \in Matching :
                        ~Better(results.list[j], results.list[k]) }
           first == CHOOSE k \in top : \A j \in top : k <= j
       IN  best = results.list[first]

C15_Witness ==
  /\ pc = "rank_ret"
  /\ Len(results.list) = 3
  /\ Matching = {1, 2, 3}
  /\ Better(results.list[2], results.list[1])
  /\ ~Better(results.list[2], results.list[3])
  /\ ~Better(results.list[3], results.list[2])
  /\ results.list[3] # results.list[2]
  /\ best = results.list[2]

\* the result list in the order p
Permuted(p) == [k \in 1..Len(results.list) |-> results.list[p[k]]]

\* the candidate the loop chooses from `list` for the language of the loop
Chosen(list) ==
  LET sorted == lang_results(list, lang)
  IN  IF sorted = <<>> THEN NoCandidate ELSE sorted[1]

\* C16 as stated: every permutation of the result list leads to the same
\* candidate being chosen.
C16_OrderIndependent ==
  pc = "rank_ret" =>
    \A p \in Permutations(1..Len(results.list)) : Chosen(Permuted(p)) = best

\* C16 amended: every permutation leads to a candidate of the same language,
\* rating and download count, and to the same candidate when no two different
\* results of the language have the same rating and download count.
C16_SameRankInAnyOrder ==
  pc = "rank_ret" =>
    \A p \in Permutations(1..Len(results.list)) :
      LET c == Chosen(Permuted(p))
          tie == \E j, k \in Matching :
                   /\ results.list[j] # results.list[k]
                   /\ ~Better(results.list[j], results.list[k])
                   /\ ~Better(results.list[k], results.list[j])
      IN  /\ c.language = best.language
          /\ c.ratings = best.ratings
          /\ c.download_count = best.download_count
          /\ ~tie => c = best

C16_Witness ==
  /\ pc = "rank_ret"
  /\ Len(results.list) = 3
  /\ Matching = {1, 2, 3}
  /\ Better(results.list[3], results.list[2])
  /\ Better(results.list[2], results.list[1])
  /\ best = results.list[3]

\* C17: no candidate is selected for a language if and only if no search
\* result has that language; a selected candidate is a result of the language.
C17_NoneIffNoMatch ==
  pc = "rank_ret" =>
    /\ h.selected <=> Matching # {}
    /\ h.selected =>
         /\ best.language = lang
         /\ \E k \in 1..Len(results.list) : results.list[k] = best
    /\ ~h.selected => best = NoCandidate

C17_Witness ==
  /\ pc = "rank_ret"
  /\ ~h.selected
  /\ Len(results.list) >= 2
  /\ best = NoCandidate

\* the target languages found neither among the item's streams nor beside
\* its media file when the item is taken up
Wanted ==
  { l \in languages :
      /\ l \notin get_existing_subtitle_languages(item)
      /\ l \notin item.sidecars }

InItem == pc \notin {"ctor", "pl_start", "pl_loop", "done"}

\* C18: only target languages absent from the item's streams and from disk
\* are searched, visited, downloaded and written; when there is none the
\* item ends with no search, no download call, no file written and 0.
C18_OnlyAbsentLanguages ==
  InItem =>
    /\ (pc = "search" \/ h.item.searches >= 1) => missing = Wanted
    /\ h.item.visited \subseteq Wanted
    /\ \A a \in Attempts : a[1] \in Wanted
    /\ (disk \ item.sidecars) \subseteq Wanted
    /\ (Wanted = {} /\ pc \in {"pl_ret", "pl_next"}) =>
         /\ h.item.searches = 0
         /\ h.item.dl_calls = 0
         /\ disk = item.sidecars
         /\ downloaded = 0
         /\ EntriesFor(en) \cup EntriesFor(es) = {}

C18_Witness ==
  /\ pc = "pl_ret"
  /\ needs_subtitles(item) = {en}
  /\ item.sidecars = {en}
  /\ item.path = "ok"
  /\ downloaded = 0

\* C19: the search uses the IMDB id whenever the guids hold one, the TMDB id
\* only when they hold no IMDB id, the title (the series title for an
\* episode) only when they hold neither, in whatever order the guids come;
\* an episode always carries its season and episode numbers.
C19_ImdbPreferred ==
  pc = "criteria_ret" =>
    LET has(s) == \E k \in 1..Len(item.guids) : item.guids[k].scheme = s
        p == h.search_params
    IN  /\ has("imdb") =>
              (p.imdb_id = 1 /\ p.tmdb_id = None /\ p.query = "")
        /\ (~has("imdb") /\ has("tmdb")) =>
              (p.imdb_id = None /\ p.tmdb_id = 2 /\ p.query = "")
        /\ (~has("imdb") /\ ~has("tmdb")) =>
              /\ p.imdb_id = None
              /\ p.tmdb_id = None
              /\ p.query = IF item.kind = "episode" THEN "grandparentTitle"
                           ELSE "title"
        /\ item.kind = "episode" =>
              (p.season_number # None /\ p.episode_number # None)

\* a comma-separated string read back as the list of its parts
RECURSIVE split(_)
split(s) ==
  LET commas == { k \in 1..Len(s) : s[k] = "," }
  IN  IF commas = {} THEN <<s>>
      ELSE LET k == CHOOSE c \in commas : \A d \in commas : c <= d
           IN  <<SubSeq(s, 1, k - 1)>> \o split(SubSeq(s, k + 1, Len(s)))

\* C20: search_subtitles is called at most once per item, its language
\* filter names exactly the missing languages, each once, and a failed or
\* empty search is followed by no other search and no download call.
C20_OneSearchOfMissing ==
  /\ h.item.searches <= 1
  /\ pc \in {"search_retry", "search_ret"} =>
       LET parts == split(h.item.search_languages)
       IN  /\ Len(parts) = Cardinality(missing)
           /\ { parts[k] : k \in 1..Len(parts) } = missing
  /\ (pc \in {"pl_ret", "pl_next"} /\ h.item.searches = 1
        /\ (results.is_none \/ results.list = <<>>)) =>
       h.item.dl_calls = 0

C20_Witness ==
  /\ pc = "search_ret"
  /\ missing = {en, es}
  /\ results.is_none
  /\ h.item.search_languages = <<"e", "s", ",", "e", "n">>

RetriedAfter401 ==
  /\ pc = "dl_ret"
  /\ h.item.dl.relogins = 1
  /\ h.item.dl.relogin_token # None
  /\ content # None
  /\ content > 0

\* C22: after one 401, a re-login that returns a token, and a retried
\* initiation and fetch that succeed, the token held is the re-login's, no
\* entry and no file exist yet for the language, and saving adds exactly one
\* entry and one sidecar file for it.
C22_OneEntryAfterRelogin ==
  /\ [](RetriedAfter401 =>
          /\ api.jwt_token = h.item.dl.relogin_token
          /\ Last(h.item.dl.post_log).status = 200
          /\ EntriesFor(lang) = {}
          /\ lang \notin disk)
  /\ [][(RetriedAfter401 /\ Last(h'.item.attempts) = <<lang, "saved">>) =>
          /\ download_report' = Append(download_report, Record(i, lang, best))
          /\ disk' = disk \cup {lang}
          /\ api' = api]_vars

C22_Witness ==
  /\ RetriedAfter401
  /\ h.item.dl.token_at_entry # None
  /\ Len(h.item.dl.post_log) = 1

\* C23: an item is taken up only while the budget is not reached; when the
\* loop stops at item i for the budget, items i..n were not taken up and
\* stats['skipped'] is n - i + 1; otherwise nothing is skipped.
C23_BudgetSkipsTheRest ==
  /\ (InItem /\ pc # "pl_next" /\ max_downloads # None /\ max_downloads # 0)
       => total_downloaded < max_downloads
  /\ pc # "done" => stats.skipped = 0
  /\ pc = "done" =>
       IF i <= len_items
       THEN /\ max_downloads # None
            /\ max_downloads # 0
            /\ total_downloaded >= max_downloads
            /\ stats.skipped = len_items - i + 1
            /\ h.entered = i - 1
       ELSE /\ stats.skipped = 0
            /\ h.entered = len_items

C23_Witness ==
  /\ pc = "done"
  /\ max_downloads = 1
  /\ languages = {en}
  /\ len_items = 2
  /\ i = 2
  /\ stats.downloaded = 1
  /\ stats.skipped = 1

\* C25: remaining_downloads changes only in the step that receives a 200 to
\* a download initiation, and then becomes the count that answer reports; a
\* 200 that reports none, and every other step, leave it as it was.
C25_QuotaOnlyFromInitiation ==
  [][/\ api'.remaining_downloads # api.remaining_downloads =>
          /\ pc \in {"dl_post", "dl_post_retry"}
          /\ Last(h'.item.dl.post_log).status = 200
          /\ Last(h'.item.dl.post_log).remaining # None
          /\ api'.remaining_downloads = Last(h'.item.dl.post_log).remaining
     /\ (pc \in {"dl_post", "dl_post_retry"} /\ pc' \in {"dl_get", "dl_ret"}
           /\ Last(h'.item.dl.post_log).status = 200
           /\ Last(h'.item.dl.post_log).remaining # None) =>
          api'.remaining_downloads = Last(h'.item.dl.post_log).remaining]_vars

C25_Witness ==
  /\ pc = "dl_get"
  /\ Last(h.item.dl.post_log).remaining = 0
  /\ api.remaining_downloads = 0
  /\ h.item.dl.token_at_entry # None
  /\ ~h.item.dl.zero_at_entry

\* C26: the download link is requested at most once in a call; when that GET
\* fails the call returns None with no further initiation, and the loop then
\* writes no file and records no entry for the language.
C26_LinkFetchedOnce ==
  /\ [](/\ h.item.dl.gets <= 1
        /\ (pc = "dl_ret" /\ h.item.dl.gets = 1
              /\ h.item.dl.get_status # 200) =>
             /\ content = None
             /\ Last(h.item.dl.post_log).status = 200
             /\ EntriesFor(lang) = {}
             /\ lang \notin disk)
  /\ [][(pc = "dl_ret" /\ content = None) =>
          /\ pc' = "lang_loop"
          /\ download_report' = download_report
          /\ disk' = disk
          /\ downloaded_count' = downloaded_count]_vars

C26_Witness ==
  /\ pc = "dl_ret"
  /\ h.item.dl.gets = 1
  /\ h.item.dl.get_status = 404
  /\ content = None

\* C27: an initiation request is sent only while a session token is held.
C27_InitiationNeedsToken ==
  pc \in {"dl_post", "dl_post_retry"} => api.jwt_token # None

\* the downloads process_library returned in the calls before call k
RECURSIVE DownloadedBefore(_)
DownloadedBefore(k) ==
  IF k <= 1 THEN 0
  ELSE DownloadedBefore(k - 1) + h.calls[k - 1].downloaded

\* C24: every library is given the budget less what the libraries before it
\* downloaded, no library is processed once that is zero or less, and
\* without a budget every movie and show library is processed unlimited.
C24_BudgetCarriedForward ==
  /\ \A k \in 1..Len(h.calls) :
       IF max_downloads # None /\ max_downloads # 0
       THEN /\ ~h.calls[k].budget.is_none
            /\ h.calls[k].budget.value = max_downloads - DownloadedBefore(k)
            /\ h.calls[k].budget.value > 0
       ELSE h.calls[k].budget.is_none
  /\ total_downloaded = DownloadedBefore(Len(h.calls) + 1)
  /\ pc = "all_done" =>
       LET eligible == { k \in 1..Len(h.sections) :
                           h.sections[k] \in {"movie", "show"} }
       IN  IF max_downloads # None /\ max_downloads # 0
           THEN Len(h.calls) < Cardinality(eligible)
                  => total_downloaded >= max_downloads
           ELSE Len(h.calls) = Cardinality(eligible)

C24_Witness ==
  /\ pc = "all_done"
  /\ max_downloads = 2
  /\ h.sections = <<"movie", "show", "movie">>
  /\ Len(h.calls) = 2
  /\ h.calls[1].downloaded = 1
  /\ h.calls[2].budget = [is_none |-> FALSE, value |-> 1]
  /\ h.calls[2].downloaded = 1

\* C28: a run whose start-up failed (Plex server not reached, login refused,
\* named library not found) ends with a failure status and no item
\* processed.
C28_InitFailuresFatal ==
  (pc = "exit" /\ (~h.plex_ok \/ ~h.login_ok \/ h.library = "missing")) =>
    /\ h.exit_code = 1
    /\ h.processed = 0

\* C29: a run ended by KeyboardInterrupt has printed every entry of
\* download_report, and has saved them all to the report file unless
\* writing that file failed.
C29_InterruptFlushesReport ==
  (pc = "exit" /\ h.interrupted) =>
    /\ h.printed = download_report
    /\ h.exit_code = 0 => h.saved = download_report

C29_Witness ==
  /\ pc = "exit"
  /\ h.interrupted
  /\ h.processed < MaxSteps
  /\ Len(download_report) >= 2
  /\ h.saved = download_report

\* C30: with a kind filter, every item process_library collects is of that
\* kind, whatever the type of the library.
C30_KindFilter ==
  (pc = "scan_ret" /\ h.media_type # "") =>
    \A k \in 1..Len(h.scanned.items) : h.scanned.items[k] = h.media_type

\* C31: every call of download_subtitle ends, whatever the provider answers.
C31_DownloadTerminates == <>(pc = "dl_ret")

\* C32: a second call of download_subtitles_for_item for an item leaves every
\* language the first call saved alone (not missing, not visited, no download
\* call, still one entry), never calls download_subtitle for a language whose
\* sidecar file exists, and makes no provider call at all when the first
\* call saved every language it found missing.
C32_RerunIsIdempotent ==
  /\ pc \in {"dl_entry", "dl_post", "dl_post_retry", "dl_get", "dl_relogin",
             "dl_ret"} => lang \notin disk
  /\ h.pass = 2 =>
       /\ h.saved \subseteq disk
       /\ missing \cap h.saved = {}
       /\ h.item.visited \cap h.saved = {}
       /\ \A a \in Attempts : a[1] \notin h.saved
       /\ \A l \in h.saved : Cardinality(EntriesFor(l)) = 1
       /\ (h.missing_first # {} /\ h.missing_first \subseteq h.saved) =>
            /\ h.item.searches = 0
            /\ h.item.dl_calls = 0
            /\ api = h.api_first
            /\ pc \in {"dsi", "pl_ret"}

C32_Witness ==
  /\ h.pass = 2
  /\ pc = "pl_ret"
  /\ h.missing_first = {en, es}
  /\ h.saved = {en, es}
  /\ needs_subtitles(item) = {en, es}

\* C33: at the end of process_library stats['downloaded'] is the number of
\* entries appended to download_report during the run.
C33_CountMatchesReport ==
  pc = "done" => stats.downloaded = Len(download_report)

\* C34: every entry of download_report has a target language; the entries
\* and the files written for the current item have languages that were
\* absent from its normalized stream languages and from disk when it was
\* taken up; within one pass a language has at most one download call, one
\* outcome and one entry.
C34_OnlyMissingTargetsOnce ==
  /\ \A k \in 1..Len(download_report) :
       download_report[k].language \in languages
  /\ InItem =>
       /\ \A k \in 1..Len(download_report) :
            download_report[k].item = i => download_report[k].language \in Wanted
       /\ (disk \ item.sidecars) \subseteq Wanted
       /\ \A l \in languages :
            /\ Cardinality({ k \in 1..Len(h.item.attempts) :
                               h.item.attempts[k][1] = l }) <= 1
            /\ Cardinality(EntriesFor(l)) <= 1
       /\ h.item.dl_calls <= Cardinality(h.item.visited)
       /\ pc \in {"dl_entry", "dl_post", "dl_post_retry", "dl_get",
                  "dl_relogin", "dl_ret"} =>
            /\ lang \in Wanted
            /\ \A a \in Attempts : a[1] # lang

C34_Witness ==
  /\ pc = "pl_ret"
  /\ languages = {en, es}
  /\ get_existing_subtitle_languages(item) = {en}
  /\ h.item.attempts = << <<es, "saved">> >>
  /\ disk = {es}
  /\ EntriesFor(es) # {}

\* the items the loop of process_library has taken up
Attempted == IF pc \in {"pl_loop", "done"} THEN i - 1 ELSE i

\* C35: in process_library total is the number of items; needs_subtitles and
\* errors never exceed the number of items taken up, which at the end is
\* total - skipped; each rises by one at a time, needs_subtitles only when an
\* item is taken up and errors only when an item is left.
C35_StatsConsistent ==
  /\ [](pc \notin {"ctor", "pl_start"} =>
          /\ stats.total = len_items
          /\ stats.needs_subtitles <= Attempted
          /\ stats.errors <= Attempted
          /\ InItem => stats.errors - h.item.errors_at_start <= 1
          /\ pc = "done" =>
               /\ Attempted = stats.total - stats.skipped
               /\ stats.needs_subtitles <= stats.total - stats.skipped
               /\ stats.errors <= stats.total - stats.skipped)
  /\ [][/\ stats'.needs_subtitles # stats.needs_subtitles =>
             /\ stats'.needs_subtitles = stats.needs_subtitles + 1
             /\ pc = "pl_loop"
        /\ (pc # "pl_start" /\ stats'.errors # stats.errors) =>
             /\ stats'.errors = stats.errors + 1
             /\ pc' = "pl_next"]_vars

C35_Witness ==
  /\ pc = "done"
  /\ stats.total = 2
  /\ stats.skipped = 1
  /\ stats.needs_subtitles = 1
  /\ stats.downloaded >= 1

NoFileId(l) ==
  LET sorted == lang_results(results.list, l)
  IN  /\ l \in h.item.visited
      /\ sorted # <<>>
      /\ (sorted[1].files = <<>> \/ sorted[1].files[1] \in {None, 0})

\* C37: a language whose top-ranked candidate has no file id gets no
\* download call, no file and no entry, whatever lower-ranked candidates of
\* that language there are.
C37_NoFileIdSkipsLanguage ==
  InItem =>
    \A l \in languages :
      NoFileId(l) =>
        /\ \A a \in Attempts : a[1] # l
        /\ EntriesFor(l) = {}
        /\ l \notin disk
        /\ lang = l => pc \in {"lang_loop", "pl_except", "pl_ret", "pl_next"}

C37_Witness ==
  /\ pc = "pl_ret"
  /\ NoFileId(en)
  /\ \E k \in 1..Len(results.list) :
       /\ results.list[k].language = en
       /\ results.list[k].files # <<>>
       /\ results.list[k].files[1] \notin {None, 0}

====
